---- MODULE Spec2Model ----
(***************************************************************************)
(* Model of Final_Project/main.c: the cyclic executive (main), the HTTP    *)
(* request parser FSM (parseRecvBuffer) and the API dispatch helpers       *)
(* (getCall, putCall, deleteCall).                                         *)
(*                                                                         *)
(* The socket, timer, sensor and log libraries are external collaborators; *)
(* they are modelled by what their interface promises:                     *)
(*   - the receive buffer is a sequence of characters, lines end in CR LF; *)
(*   - socket_recv_compare consumes the matched prefix only;               *)
(*   - socket_flush_line discards through the next LF (everything when no  *)
(*     LF is buffered);                                                    *)
(*   - socket_is_blank_line on an empty buffer is not specified and is     *)
(*     left nondeterministic;                                              *)
(*   - socket_disconnect leaves the socket Closed, socket_open starts a    *)
(*     fresh socket with an empty receive buffer.                          *)
(* The peer and the clock are the environment: lines arrive whole, at any  *)
(* point of the loop, while the connection is established.                 *)
(***************************************************************************)
EXTENDS Integers, Sequences, FiniteSets, TLC

(* ------------------------------ bounds -------------------------------- *)
\* lines a peer sends over one connection
MaxSent == 3
\* capacity of the event log
MaxLog == 4
\* lines in a receive buffer handed to a single parser call
MaxUnitLines == 3
\* records in a log handed to a single getCall
MaxUnitLog == 2

(* ------------------------- program constants -------------------------- *)
EMPTY == 0
REQUEST == 1
HEADER == 2
END == 3

NONE == 0
GET == 1
PUT == 2
DELETE == 3

InitialTemperature == 75
WarmupDelay == 5000
SampleDelay == 1000

(* ------------------------------ lines --------------------------------- *)
CRLF == <<"\r", "\n">>

GetPrefix == <<"G", "E", "T", " ">>
PutPrefix == <<"P", "U", "T", " ">>
DeletePrefix == <<"D", "E", "L", "E", "T", "E", " ">>

\* the texts a peer may send, without their line terminator
LineText(kind) ==
    CASE kind = "GET" -> GetPrefix \o <<"/">>
      [] kind = "PUT" -> PutPrefix \o <<"/">>
      [] kind = "DELETE" -> DeletePrefix \o <<"/">>
      [] kind = "OTHER" -> <<"H", ":", "x">>
      [] kind = "BLANK" -> <<>>

LineKinds == {"GET", "PUT", "DELETE", "OTHER", "BLANK"}
MethodKinds == {"GET", "PUT", "DELETE"}

MethodOf(kind) ==
    CASE kind = "GET" -> GET
      [] kind = "PUT" -> PUT
      [] kind = "DELETE" -> DELETE
      [] OTHER -> NONE

Wire(kind) == LineText(kind) \o CRLF

(* ------------------------ line socket adapter ------------------------- *)
socket_received_line(buf) == \E i \in 1..Len(buf) : buf[i] = "\n"

LineEnd(buf) == CHOOSE i \in 1..Len(buf) :
                    /\ buf[i] = "\n"
                    /\ \A j \in 1..(i - 1) : buf[j] # "\n"

socket_flush_line(buf) ==
    IF socket_received_line(buf)
    THEN SubSeq(buf, LineEnd(buf) + 1, Len(buf))
    ELSE <<>>

Matches(buf, str) == /\ Len(buf) >= Len(str)
                     /\ SubSeq(buf, 1, Len(str)) = str

\* the buffer left behind by socket_recv_compare
AfterCompare(buf, str) ==
    IF Matches(buf, str) THEN SubSeq(buf, Len(str) + 1, Len(buf)) ELSE buf

\* the answers socket_is_blank_line may give
socket_is_blank_line(buf) ==
    IF buf = <<>> THEN BOOLEAN
    ELSE {Matches(buf, CRLF) \/ Matches(buf, <<"\n">>)}

socket_recv_available(buf) == Len(buf)

(* --------------------------- response tokens -------------------------- *)
\* one token per socket_write* call
Str(s) == [k |-> "str", s |-> s, n |-> 0]
Chr(c) == [k |-> "chr", s |-> c, n |-> 0]
Quoted(s) == [k |-> "quoted", s |-> s, n |-> 0]
Date(t) == [k |-> "date", s |-> "", n |-> t]
Dec(n) == [k |-> "dec", s |-> "", n |-> n]
Mac(s) == [k |-> "mac", s |-> s, n |-> 0]

Colon == Chr(":")
Comma == Chr(",")
CloseBracket == Chr("}")


(* ------------------------- external read-only data -------------------- *)
\* config.hi_alarm, config.hi_warn, config.lo_alarm, config.lo_warn
config == [hi_alarm |-> 4, hi_warn |-> 3, lo_alarm |-> 1, lo_warn |-> 2]

\* the vital product data strings
vpd == [model |-> "vpd.model", manufacturer |-> "vpd.manufacturer",
        serial_number |-> "vpd.serial_number", manufacture_date |-> 7,
        mac_address |-> "vpd.mac_address",
        country_of_origin |-> "vpd.country_of_origin"]

\* event codes of the records main adds before the loop
EVENT_TIMESET == 1
EVENT_NEWTIME == 2
EVENT_STARTUP == 3
\* the events tempfsm_update may log
AlarmEvents == {EVENT_STARTUP + 1}

\* the readings temp_get may return
TempReadings == {InitialTemperature, InitialTemperature + 1}

LogRec(t, e) == [time |-> t, event |-> e]

StartupLog == <<LogRec(0, EVENT_TIMESET), LogRec(1, EVENT_NEWTIME),
                LogRec(1, EVENT_STARTUP)>>

(* ------------------------------ getCall ------------------------------- *)
ResponseHeader ==
    << Str("HTTP/1.1 200 OK"),
       Str("Content-Type: application/vnd.api+json"),
       Str("Connection: close\r\n"),
       Str("\r\n") >>

VpdObject ==
    << Chr("{"), Quoted("vpd"), Str(":{"), Quoted("model"), Colon,
       Quoted(vpd.model), Comma,
       Quoted("manufacturer"), Colon, Quoted(vpd.manufacturer), Comma,
       Quoted("serial_number"), Colon, Quoted(vpd.serial_number), Comma,
       Quoted("manufacture_date"), Colon, Date(vpd.manufacture_date), Comma,
       Quoted("mac_address"), Colon, Mac(vpd.mac_address), Comma,
       Quoted("country_code"), Colon, Quoted(vpd.country_of_origin),
       CloseBracket >>

StatusFields(temp) ==
    << Comma, Quoted("tcrit_hi"), Colon, Dec(config.hi_alarm), Comma,
       Quoted("twarn_hi"), Colon, Dec(config.hi_warn),
       Comma, Quoted("tcrit_lo"), Colon, Dec(config.lo_alarm), Comma,
       Quoted("twarn_lo"), Colon, Dec(config.lo_warn), Comma,
       Quoted("temperature"), Colon, Dec(temp), Comma,
       Quoted("state"), Colon, Quoted("NORMAL"), Comma,
       Quoted("log"), Str(":[") >>

\* the body of the loop over the log, for record i (0-based)
LogEntry(rec) ==
    << Chr("{"), Quoted("timestamp"), Colon, Date(rec.time), Comma,
       Quoted("event"), Colon, Dec(rec.event), Chr("}") >>

\* if (i<log_get_num_entries()-1)
CommaAfter_Always(i, n) == i < n

CommaAfter(i, n) == i < n - 1

\* for (int i=0; i<log_get_num_entries(); i++)
RECURSIVE LogLoop(_, _, _)
LogLoop(i, lg, out) ==
    IF i < Len(lg)
    THEN LogLoop(i + 1, lg,
                 out \o LogEntry(lg[i + 1])
                     \o (IF CommaAfter(i, Len(lg)) THEN <<Comma>> ELSE <<>>))
    ELSE out

ResponseTail == << Chr("]"), CloseBracket, Str("\r\n") >>

getCall(lg, temp) ==
    ResponseHeader \o VpdObject \o StatusFields(temp)
        \o LogLoop(0, lg, <<>>) \o ResponseTail

\* a putCall that answers on the connection
putCall_Responds == << Str("HTTP/1.1 200 OK") >>

\* putCall and deleteCall write to the uart only
putCall == <<>>
deleteCall == <<>>

(* ------------------------------- state -------------------------------- *)
VARIABLES
    pc,                  \* position of the single thread of control
    protocolState,       \* parser FSM state
    apiCall,             \* decoded method
    current_temperature, \* last sampled reading
    passes,              \* passes of the running while loop of the parser, modulo 2
    connState,           \* socket: "Closed", "Listening", "Established"
    recvbuf,             \* characters received and not yet consumed
    written,             \* tokens written to the current connection
    delay1,              \* ms left on delay timer 1, 0 when done
    acquiring,           \* temp_start was called after the last temp_get
    log,                 \* the event log
    unit,                \* TRUE when a single function is called in isolation
    entry,               \* what the isolated call was entered with
    reqLine,             \* kind of the first line the peer sent on this connection
    reqPhase,            \* how far the peer is through a well-formed request
    nsent,               \* lines the peer sent on this connection
    sentMethod,          \* one of them starts with a method prefix
    completed,           \* requests the parser finished since the last dispatch
    decoded,             \* a method was decoded since the last disconnect
    parsedConn,          \* the parser ran since the socket was last opened
    closedN,             \* socket_disconnect calls in this iteration
    dispatched,          \* the dispatch switch ran in this iteration
    needReopen           \* socket_disconnect ran and socket_open has not yet

vars == << pc, protocolState, apiCall, current_temperature, passes, connState, recvbuf,
           written, delay1, log, unit, entry, acquiring, reqLine, reqPhase, nsent,
           sentMethod, completed, decoded, parsedConn, closedN, dispatched, needReopen >>

progVars == << protocolState, apiCall, current_temperature, passes >>
sockVars == << connState, recvbuf, written >>
peerVars == << reqLine, reqPhase, nsent, sentMethod >>
iterVars == << closedN, dispatched >>

NoEntry == [fn |-> "main", state |-> EMPTY, api |-> NONE, buf |-> <<>>]

\* where parseRecvBuffer returns to
Ret == IF unit THEN "ret" ELSE "pump"

(* --------------------------- initial state ---------------------------- *)
\* main, lines 54-140: globals, start-up log records, warm-up delay
Init ==
    /\ pc = "wdt"
    /\ protocolState = EMPTY
    /\ apiCall = NONE
    /\ current_temperature = InitialTemperature
    /\ passes = 0
    /\ connState = "Closed"
    /\ recvbuf = <<>>
    /\ written = <<>>
    /\ delay1 = WarmupDelay
    /\ acquiring = TRUE
    /\ log = StartupLog
    /\ unit = FALSE
    /\ entry = NoEntry
    /\ reqLine = "" /\ reqPhase = "start" /\ nsent = 0 /\ sentMethod = FALSE
    /\ completed = 0
    /\ decoded = FALSE
    /\ parsedConn = FALSE
    /\ closedN = 0
    /\ dispatched = FALSE
    /\ needReopen = FALSE


(* ------------------------------ the peer ------------------------------ *)
\* progress of the peer through: method line, header lines, blank line,
\* optionally body lines and a blank line
NextPhase(phase, kind) ==
    CASE phase = "start" -> IF kind \in MethodKinds THEN "headers" ELSE "bad"
      [] phase = "headers" -> IF kind = "BLANK" THEN "nobody" ELSE "headers"
      [] phase = "nobody" -> IF kind = "BLANK" THEN "bad" ELSE "body"
      [] phase = "body" -> IF kind = "BLANK" THEN "done" ELSE "body"
      [] OTHER -> "bad"

\* a client connects to the listening socket
PeerConnect ==
    /\ ~unit
    /\ connState = "Listening"
    /\ connState' = "Established"
    /\ reqLine' = "" /\ reqPhase' = "start" /\ nsent' = 0
    /\ sentMethod' = FALSE
    /\ UNCHANGED << pc, progVars, recvbuf, written, delay1, log, unit, entry, acquiring,
                    completed, decoded, parsedConn, iterVars, needReopen >>

\* one whole line reaches the receive buffer
Arrive(kind) ==
    /\ ~unit
    /\ connState = "Established"
    /\ nsent < MaxSent
    /\ recvbuf' = recvbuf \o Wire(kind)
    /\ nsent' = nsent + 1
    /\ reqLine' = IF nsent = 0 THEN kind ELSE reqLine
    /\ reqPhase' = NextPhase(reqPhase, kind)
    /\ sentMethod' = (sentMethod \/ kind \in MethodKinds)
    /\ UNCHANGED << pc, progVars, connState, written, delay1, log, unit, entry, acquiring,
                    completed, decoded, parsedConn, iterVars, needReopen >>

\* the client drops the connection
PeerClose ==
    /\ ~unit
    /\ connState = "Established"
    /\ connState' = "Closed"
    /\ UNCHANGED << pc, progVars, recvbuf, written, delay1, log, unit, entry, acquiring,
                    peerVars, completed, decoded, parsedConn, iterVars,
                    needReopen >>

\* the armed duration of delay timer 1 elapses
Expire ==
    /\ ~unit
    /\ delay1 > 0
    /\ delay1' = 0
    /\ UNCHANGED << pc, progVars, sockVars, log, unit, entry, acquiring, peerVars,
                    completed, decoded, parsedConn, iterVars, needReopen >>

(* ------------------------------- main --------------------------------- *)
\* wdt_reset(); led_update();
WdtReset ==
    /\ pc = "wdt"
    /\ pc' = "sample"
    /\ closedN' = 0
    /\ dispatched' = FALSE
    /\ UNCHANGED << progVars, sockVars, delay1, log, unit, entry, acquiring, peerVars,
                    completed, decoded, parsedConn, needReopen >>

\* the sampling block without the test on delay_isdone(1)
Sample_EveryIteration ==
    /\ pc = "sample"
    /\ pc' = "open"
    /\ \E t \in TempReadings : current_temperature' = t
    /\ \/ log' = log
       \/ /\ Len(log) < MaxLog
          /\ \E e \in AlarmEvents : log' = Append(log, LogRec(Len(log), e))
    /\ delay1' = SampleDelay
    /\ acquiring' = TRUE
    /\ UNCHANGED << protocolState, apiCall, passes, sockVars, unit, entry,
                    peerVars, completed, decoded, parsedConn, iterVars,
                    needReopen >>

\* if (delay_isdone(1)) { ... delay_set(1, 1000); temp_start(); }
Sample ==
    /\ pc = "sample"
    /\ pc' = "open"
    /\ IF delay1 = 0
       THEN /\ \E t \in TempReadings : current_temperature' = t
            /\ \/ log' = log
               \/ /\ Len(log) < MaxLog
                  /\ \E e \in AlarmEvents :
                        log' = Append(log, LogRec(Len(log), e))
            /\ delay1' = SampleDelay
            /\ acquiring' = TRUE
       ELSE UNCHANGED << current_temperature, delay1, log, acquiring >>
    /\ UNCHANGED << protocolState, apiCall, passes, sockVars, unit, entry,
                    peerVars, completed, decoded, parsedConn, iterVars,
                    needReopen >>

\* the open/listen step without the test on socket_is_closed
Open_Always ==
    /\ pc = "open"
    /\ pc' = "check"
    /\ connState' = "Listening"
    /\ recvbuf' = <<>>
    /\ written' = <<>>
    /\ parsedConn' = FALSE
    /\ needReopen' = FALSE
    /\ UNCHANGED << progVars, delay1, log, unit, entry, acquiring, peerVars,
                    completed, decoded, iterVars >>

\* if (socket_is_closed(...)) { socket_open(...); socket_listen(...); }
Open ==
    /\ pc = "open"
    /\ pc' = "check"
    /\ IF connState = "Closed"
       THEN /\ connState' = "Listening"
            /\ recvbuf' = <<>>
            /\ written' = <<>>
            /\ parsedConn' = FALSE
            /\ needReopen' = FALSE
       ELSE UNCHANGED << sockVars, parsedConn, needReopen >>
    /\ UNCHANGED << progVars, delay1, log, unit, entry, acquiring, peerVars, completed,
                    decoded, iterVars >>

\* if (socket_received_line(SERVER_SOCKET))
Check ==
    /\ pc = "check"
    /\ pc' = IF socket_received_line(recvbuf) THEN "pump" ELSE "idle"
    /\ UNCHANGED << progVars, sockVars, delay1, log, unit, entry, acquiring, peerVars,
                    completed, decoded, parsedConn, iterVars, needReopen >>

\* while (socket_received_line(SERVER_SOCKET)) parseRecvBuffer();
Pump ==
    /\ pc = "pump"
    /\ pc' = IF socket_received_line(recvbuf) THEN "parse" ELSE "dispatch"
    /\ UNCHANGED << progVars, sockVars, delay1, log, unit, entry, acquiring, peerVars,
                    completed, decoded, parsedConn, iterVars, needReopen >>

\* switch (apiCall)
Response ==
    CASE apiCall = GET -> getCall(log, current_temperature)
      [] apiCall = PUT -> putCall
      [] apiCall = DELETE -> deleteCall
      [] OTHER -> <<>>

Dispatch ==
    /\ pc = "dispatch"
    /\ pc' = "disconnect"
    /\ written' = written \o Response
    /\ dispatched' = TRUE
    /\ completed' = 0
    /\ UNCHANGED << progVars, connState, recvbuf, delay1, log, unit, entry, acquiring,
                    peerVars, decoded, parsedConn, closedN, needReopen >>

\* the disconnect placed inside case GET of the switch
Disconnect_OnlyAfterGet ==
    /\ pc = "disconnect"
    /\ pc' = "wdt"
    /\ connState' = IF apiCall = GET THEN "Closed" ELSE connState
    /\ closedN' = IF apiCall = GET THEN closedN + 1 ELSE closedN
    /\ needReopen' = (apiCall = GET)
    /\ decoded' = FALSE
    /\ UNCHANGED << progVars, recvbuf, written, delay1, log, unit, entry, acquiring,
                    peerVars, completed, parsedConn, dispatched >>

\* socket_disconnect(SERVER_SOCKET);
Disconnect ==
    /\ pc = "disconnect"
    /\ pc' = "wdt"
    /\ connState' = "Closed"
    /\ closedN' = closedN + 1
    /\ needReopen' = TRUE
    /\ decoded' = FALSE
    /\ UNCHANGED << progVars, recvbuf, written, delay1, log, unit, entry, acquiring,
                    peerVars, completed, parsedConn, dispatched >>

\* log_update(); config_update();
Idle ==
    /\ pc = "idle"
    /\ pc' = "wdt"
    /\ UNCHANGED << progVars, sockVars, delay1, log, unit, entry, acquiring, peerVars,
                    completed, decoded, parsedConn, iterVars, needReopen >>

(* -------------------------- parseRecvBuffer --------------------------- *)
\* switch (protocolState): case EMPTY in full, entry of the other cases
Parse ==
    /\ pc = "parse"
    /\ parsedConn' = TRUE
    /\ passes' = 0
    /\ CASE protocolState = EMPTY ->
              /\ IF socket_received_line(recvbuf)
                 THEN apiCall' = NONE /\ protocolState' = REQUEST
                 ELSE UNCHANGED << apiCall, protocolState >>
              /\ pc' = Ret
         [] protocolState = REQUEST ->
              /\ pc' = "req_loop"
              /\ UNCHANGED << apiCall, protocolState >>
         [] protocolState = HEADER ->
              /\ pc' = "hdr_loop"
              /\ UNCHANGED << apiCall, protocolState >>
         [] protocolState = END ->
              /\ pc' = "end_loop"
              /\ UNCHANGED << apiCall, protocolState >>
         [] OTHER ->
              /\ pc' = Ret
              /\ UNCHANGED << apiCall, protocolState >>
    /\ UNCHANGED << current_temperature, sockVars, delay1, log, unit, entry, acquiring,
                    peerVars, completed, decoded, iterVars, needReopen >>

\* the chain of comparisons without its last branch
Decode_NoDelete(buf) ==
    IF Matches(buf, GetPrefix) THEN GET
    ELSE IF Matches(buf, PutPrefix) THEN PUT
    ELSE NONE

\* the method the next buffered characters spell, NONE when none does
Decode(buf) ==
    IF Matches(buf, GetPrefix) THEN GET
    ELSE IF Matches(buf, PutPrefix) THEN PUT
    ELSE IF Matches(buf, DeletePrefix) THEN DELETE
    ELSE NONE

PrefixOf(call) ==
    CASE call = GET -> GetPrefix
      [] call = PUT -> PutPrefix
      [] call = DELETE -> DeletePrefix
      [] OTHER -> <<>>

\* case REQUEST: one pass of while (!found), and the exit once found
ReqLoop ==
    /\ pc = "req_loop"
    /\ LET call == Decode(recvbuf)
           found == call # NONE
       IN /\ recvbuf' = socket_flush_line(AfterCompare(recvbuf, PrefixOf(call)))
          /\ apiCall' = IF found THEN call ELSE apiCall
          /\ protocolState' = IF found THEN HEADER ELSE protocolState
          /\ decoded' = (decoded \/ found)
          /\ pc' = IF found THEN Ret ELSE "req_loop"
          /\ passes' = IF found THEN 0 ELSE 1 - passes
    /\ UNCHANGED << current_temperature, connState, written, delay1, log,
                    unit, entry, acquiring, peerVars, completed, parsedConn, iterVars,
                    needReopen >>

\* the body state written as a value past END
AfterHeaders_Overrun(buf) ==
    IF socket_recv_available(buf) > 0 THEN END + 1 ELSE EMPTY

\* the test on socket_recv_available the other way round
AfterHeaders_Inverted(buf) ==
    IF socket_recv_available(buf) > 0 THEN EMPTY ELSE END

\* if (socket_recv_available(SERVER_SOCKET)>0)
AfterHeaders(buf) == IF socket_recv_available(buf) > 0 THEN END ELSE EMPTY

\* case HEADER: one pass of while (!socket_is_blank_line), and the exit
HdrLoop ==
    /\ pc = "hdr_loop"
    /\ \E blank \in socket_is_blank_line(recvbuf) :
          /\ recvbuf' = socket_flush_line(recvbuf)
          /\ IF blank
             THEN /\ protocolState' = AfterHeaders(recvbuf')
                  /\ completed' = IF protocolState' = EMPTY
                                  THEN completed + 1 ELSE completed
                  /\ pc' = Ret
                  /\ passes' = 0
             ELSE /\ passes' = 1 - passes
                  /\ UNCHANGED << protocolState, completed, pc >>
    /\ UNCHANGED << apiCall, current_temperature, connState, written, delay1,
                    log, unit, entry, acquiring, peerVars, decoded, parsedConn, iterVars,
                    needReopen >>

\* case END: one pass of while (!socket_is_blank_line), and the exit
EndLoop ==
    /\ pc = "end_loop"
    /\ \E blank \in socket_is_blank_line(recvbuf) :
          /\ recvbuf' = socket_flush_line(recvbuf)
          /\ IF blank
             THEN /\ protocolState' = EMPTY
                  /\ completed' = completed + 1
                  /\ pc' = Ret
                  /\ passes' = 0
             ELSE /\ passes' = 1 - passes
                  /\ UNCHANGED << protocolState, completed, pc >>
    /\ UNCHANGED << apiCall, current_temperature, connState, written, delay1,
                    log, unit, entry, acquiring, peerVars, decoded, parsedConn, iterVars,
                    needReopen >>

ParserStep == Parse \/ ReqLoop \/ HdrLoop \/ EndLoop

(* --------------------------- specifications --------------------------- *)
Program == WdtReset \/ Sample \/ Open \/ Check \/ Pump \/ Dispatch
              \/ Disconnect \/ Idle \/ ParserStep

Environment == PeerConnect \/ (\E kind \in LineKinds : Arrive(kind))
                  \/ PeerClose \/ Expire

Next == Program \/ Environment

Spec == Init /\ [][Next]_vars

\* the thread of control always takes its next step; the peer and the
\* clock owe nothing
LiveSpec == Spec /\ WF_vars(Program)


(* ------------------- single calls, entered from any state ------------- *)
RECURSIVE WireAll(_)
WireAll(kinds) ==
    IF kinds = <<>> THEN <<>> ELSE Wire(Head(kinds)) \o WireAll(Tail(kinds))

KindSeqs(n) == UNION {[1..m -> LineKinds] : m \in 0..n}

UnitBuffers == {WireAll(ks) : ks \in KindSeqs(MaxUnitLines)}

UnitRecs == {LogRec(t, e) : t \in 0..1, e \in 0..1}

UnitLogs == UNION {[1..m -> UnitRecs] : m \in 0..MaxUnitLog}

\* every value an unsigned char protocolState is told apart by
UnitStates == EMPTY..(END + 1)

UnitCalls == {NONE, GET, PUT, DELETE}

UnitInit ==
    /\ pc = "call"
    /\ unit = TRUE
    /\ passes = 0
    /\ connState = "Established"
    /\ written = <<>>
    /\ delay1 = SampleDelay
    /\ acquiring = TRUE
    /\ reqLine = "" /\ reqPhase = "start" /\ nsent = 0 /\ sentMethod = FALSE
    /\ completed = 0
    /\ decoded = FALSE
    /\ parsedConn = FALSE
    /\ closedN = 0
    /\ dispatched = FALSE
    /\ needReopen = FALSE
    /\ \/ /\ protocolState \in UnitStates
          /\ apiCall \in UnitCalls
          /\ recvbuf \in UnitBuffers
          /\ log = StartupLog
          /\ current_temperature = InitialTemperature
          /\ entry = [fn |-> "parse", state |-> protocolState,
                      api |-> apiCall, buf |-> recvbuf]
       \/ /\ protocolState = EMPTY
          /\ apiCall = GET
          /\ recvbuf = <<>>
          /\ log \in UnitLogs
          /\ current_temperature \in TempReadings
          /\ entry = [fn |-> "get", state |-> protocolState,
                      api |-> apiCall, buf |-> recvbuf]

\* parseRecvBuffer();
CallParse ==
    /\ unit
    /\ pc = "call"
    /\ entry.fn = "parse"
    /\ pc' = "parse"
    /\ UNCHANGED << progVars, sockVars, delay1, log, unit, entry, acquiring, peerVars,
                    completed, decoded, parsedConn, iterVars, needReopen >>

\* getCall();
CallGet ==
    /\ unit
    /\ pc = "call"
    /\ entry.fn = "get"
    /\ pc' = "ret"
    /\ written' = written \o getCall(log, current_temperature)
    /\ UNCHANGED << progVars, connState, recvbuf, delay1, log, unit, entry, acquiring,
                    peerVars, completed, decoded, parsedConn, iterVars,
                    needReopen >>

UnitNext == CallParse \/ CallGet \/ ParserStep

UnitSpec == UnitInit /\ [][UnitNext]_vars

\* a call that can take a step takes it
UnitLive == UnitSpec /\ WF_vars(UnitNext)


(* ============================== claims ================================ *)
ParserPcs == {"parse", "req_loop", "hdr_loop", "end_loop"}

\* the peer has sent a method line and, so far, nothing that a request of
\* the form method line, headers, blank line [, body lines, blank line]
\* does not allow
ValidPhases == {"headers", "nobody", "body", "done"}

\* the iteration that served the connection has closed it
CycleOver == ~unit /\ pc = "wdt" /\ dispatched /\ closedN >= 1

(* C1: whenever the peer sends a valid request, however its lines are split *)
(* over iterations, the request cycle ends with protocolState = EMPTY and   *)
(* apiCall equal to the method of the request line.                         *)
C1_ValidRequestEndsEmpty ==
    (CycleOver /\ reqPhase \in ValidPhases)
        => (protocolState = EMPTY /\ apiCall = MethodOf(reqLine))

(* C2: every started iteration of the main loop finishes, so wdt_reset is   *)
(* executed infinitely often.                                               *)
C2_WatchdogResetForever == []<>(pc = "sample")

(* C3: every invocation of parseRecvBuffer returns, in every protocolState  *)
(* and for every finite content of the receive buffer.                      *)
C3_ParserCallReturns == [](pc = "parse" => <>(pc = "ret"))

(* C4: a request whose method line starts with none of the three prefixes   *)
(* reaches the dispatch step with apiCall = NONE and nothing written.       *)
C4_UnknownMethodDispatchedNone ==
    (~unit /\ pc = "pump" /\ reqLine = "OTHER" /\ ~sentMethod
        /\ socket_received_line(recvbuf))
    ~> (pc = "dispatch" /\ apiCall = NONE /\ written = <<>>)

(* C5: a request cycle closes the connection exactly once, whatever was     *)
(* dispatched, and no line is parsed between that close and the reopening   *)
(* of the socket into listening mode by a later iteration.                  *)
C5_ClosedOnceThenReopened ==
    /\ closedN <= 1
    /\ (pc = "wdt" => closedN = (IF dispatched THEN 1 ELSE 0))
    /\ (needReopen => connState = "Closed")
    /\ (pc \in ParserPcs \cup {"pump", "dispatch"}
            => (~needReopen /\ ~dispatched))

C5_Witness ==
    /\ CycleOver /\ closedN = 1 /\ needReopen /\ connState = "Closed"
    /\ apiCall = PUT

(* C6: a parser call entered with no complete line buffered returns and     *)
(* leaves protocolState, apiCall and the receive buffer as they were, in    *)
(* each of the four states.                                                 *)
C6_NoLineIsNoOp ==
    [](( /\ pc = "call" /\ entry.fn = "parse"
         /\ protocolState \in {EMPTY, REQUEST, HEADER, END}
         /\ ~socket_received_line(recvbuf) )
       => <>( /\ pc = "ret"
              /\ protocolState = entry.state
              /\ apiCall = entry.api
              /\ recvbuf = entry.buf ))

(* C7: every dispatch happens with protocolState = EMPTY, for exactly one   *)
(* request the parser has completed since the previous dispatch.            *)
C7_OneDispatchPerCompletedRequest ==
    (~unit /\ pc = "dispatch") => (protocolState = EMPTY /\ completed = 1)

(* C8: no dispatch acts on a method decoded from an earlier request or an   *)
(* earlier connection: a method that is dispatched was decoded since the    *)
(* last close.                                                              *)
C8_DispatchedMethodIsFresh ==
    (~unit /\ pc = "dispatch" /\ apiCall # NONE) => decoded

(* C9: when the first line of a connection is parsed, protocolState is      *)
(* EMPTY, whatever state the parser was in when the previous connection     *)
(* went down.                                                               *)
C9_NewConnectionStartsEmpty ==
    (~unit /\ pc = "parse" /\ ~parsedConn) => protocolState = EMPTY

(* C10: the log array a GET writes has one object per log record, in index  *)
(* order, with a comma between two objects and none after the last; it is   *)
(* empty for an empty log.                                                  *)
IndexOf(seq, tok) == CHOOSE i \in 1..Len(seq) :
                        /\ seq[i] = tok
                        /\ \A j \in 1..(i - 1) : seq[j] # tok

LogArray(out) ==
    SubSeq(out, IndexOf(out, Str(":[")) + 1, IndexOf(out, Chr("]")) - 1)

C10_LogArrayMatchesLog ==
    (unit /\ pc = "ret" /\ entry.fn = "get") =>
        LET arr == LogArray(written)
            n == Len(log)
        IN /\ Len(arr) = IF n = 0 THEN 0 ELSE 10 * n - 1
           /\ Cardinality({i \in 1..Len(arr) : arr[i] = Chr("{")}) = n
           /\ \A i \in 0..(n - 1) :
                 /\ arr[10 * i + 1] = Chr("{")
                 /\ arr[10 * i + 2] = Quoted("timestamp")
                 /\ arr[10 * i + 4] = Date(log[i + 1].time)
                 /\ arr[10 * i + 6] = Quoted("event")
                 /\ arr[10 * i + 8] = Dec(log[i + 1].event)
                 /\ arr[10 * i + 9] = Chr("}")
                 /\ (i < n - 1 => arr[10 * i + 10] = Comma)
           /\ (n > 0 => arr[Len(arr)] = Chr("}"))

C10_Witness ==
    /\ unit /\ pc = "ret" /\ entry.fn = "get"
    /\ Len(log) = 2 /\ log[1] # log[2]
    /\ Len(LogArray(written)) = 19

(* C11: the GET response is a status line, a content-type header line and a *)
(* "Connection: close" header line, each terminated on its own, a blank     *)
(* line, and one JSON object whose keys come in the fixed order; the value  *)
(* of temperature is current_temperature.                                   *)
EOL == "\r\n"

KeySeparators == {Colon, Str(":{"), Str(":[")}

\* the positions of the quoted strings that are keys
KeyPositions(out) ==
    {i \in 1..(Len(out) - 1) :
        out[i].k = "quoted" /\ out[i + 1] \in KeySeparators}

PosOfKey(out, name) ==
    CHOOSE i \in KeyPositions(out) :
        /\ out[i] = Quoted(name)
        /\ \A j \in KeyPositions(out) : out[j] = Quoted(name) => i <= j

TopLevelKeys ==
    << "vpd", "model", "manufacturer", "serial_number", "manufacture_date",
       "mac_address", "country_code", "tcrit_hi", "twarn_hi", "tcrit_lo",
       "twarn_lo", "temperature", "state", "log" >>

KeysInOrder(out) ==
    /\ \A k \in 1..Len(TopLevelKeys) :
          \E i \in KeyPositions(out) : out[i] = Quoted(TopLevelKeys[k])
    /\ \A k \in 1..(Len(TopLevelKeys) - 1) :
          PosOfKey(out, TopLevelKeys[k]) < PosOfKey(out, TopLevelKeys[k + 1])
    /\ Cardinality({i \in KeyPositions(out) : i <= PosOfKey(out, "log")})
          = Len(TopLevelKeys)

C11_GetResponseLayout ==
    (~unit /\ pc = "disconnect" /\ apiCall = GET) =>
        /\ Len(written) > 4
        /\ written[1] = Str("HTTP/1.1 200 OK" \o EOL)
        /\ written[2] = Str("Content-Type: application/vnd.api+json" \o EOL)
        /\ written[3] = Str("Connection: close" \o EOL)
        /\ written[4] = Str(EOL)
        /\ written[5] = Chr("{")
        /\ KeysInOrder(written)
        /\ written[PosOfKey(written, "temperature") + 2]
              = Dec(current_temperature)

(* C12: a parser call entered with protocolState outside EMPTY, REQUEST,    *)
(* HEADER, END treats the state as EMPTY: when it returns, protocolState is *)
(* one of the four states.                                                  *)
ValidStates == {EMPTY, REQUEST, HEADER, END}

C12_InvalidStateIsReset ==
    (unit /\ pc = "ret" /\ entry.fn = "parse" /\ entry.state \notin ValidStates)
        => protocolState \in ValidStates

FirstMethod(ks) ==
    CHOOSE i \in 1..Len(ks) :
        /\ ks[i] \in MethodKinds
        /\ \A j \in 1..(i - 1) : ks[j] \notin MethodKinds

FirstBlank(ks) ==
    CHOOSE i \in 1..Len(ks) :
        /\ ks[i] = "BLANK"
        /\ \A j \in 1..(i - 1) : ks[j] # "BLANK"

C15_HeaderAndBodyDiscard ==
    (unit /\ pc = "ret" /\ entry.fn = "parse" /\ entry.state \in {HEADER, END})
        => \A ks \in KindSeqs(MaxUnitLines) :
              (entry.buf = WireAll(ks) /\ \E i \in 1..Len(ks) : ks[i] = "BLANK")
                 => LET rest == SubSeq(ks, FirstBlank(ks) + 1, Len(ks))
                    IN /\ recvbuf = WireAll(rest)
                       /\ apiCall = entry.api
                       /\ protocolState =
                             IF entry.state = HEADER /\ rest # <<>>
                             THEN END ELSE EMPTY

C15_Witness ==
    /\ unit /\ pc = "ret" /\ entry.fn = "parse" /\ entry.state = HEADER
    /\ entry.buf = WireAll(<<"OTHER", "BLANK", "GET">>)
    /\ protocolState = END
    /\ recvbuf = Wire("GET")

(* C16: once a method has been decoded on a connection, no later line of    *)
(* the same well-formed request (header or body) changes apiCall.           *)
C16_MethodKeptThroughRequest ==
    [][ (~unit /\ decoded /\ reqPhase \in ValidPhases /\ reqPhase' \in ValidPhases)
            => apiCall' = apiCall ]_vars

(* C17: the parser compares, tests and flushes only while a complete line   *)
(* is buffered: at every pass of one of its loops a line is available.      *)
LoopPcs == {"req_loop", "hdr_loop", "end_loop"}

C17_ReadsOnlyBufferedLines ==
    (~unit /\ pc \in LoopPcs) => socket_received_line(recvbuf)

(* C18: the sensor is sampled only in an iteration that finds delay timer 1 *)
(* done; that iteration re-arms the timer for 1000 ms and restarts the      *)
(* acquisition; the 5000 ms warm-up delay is armed before the loop only, so *)
(* a full timer period lies between any two samples.                        *)
C18_SampledOnlyOnExpiry ==
    [][ /\ (pc = "sample" /\ pc' # pc)
            => /\ pc' = "open"
               /\ IF delay1 = 0
                  THEN delay1' = SampleDelay /\ acquiring'
                  ELSE /\ current_temperature' = current_temperature
                       /\ log' = log
                       /\ delay1' = delay1
                       /\ acquiring' = acquiring
        /\ (current_temperature' # current_temperature \/ log' # log)
            => (pc = "sample" /\ delay1 = 0 /\ delay1' = SampleDelay)
        /\ (delay1' = WarmupDelay => delay1 = WarmupDelay)
        /\ (delay1' # delay1 /\ delay1' # 0)
            => (pc = "sample" /\ delay1 = 0) ]_vars

C18_Witness ==
    /\ ~unit /\ pc = "open" /\ delay1 = SampleDelay /\ acquiring
    /\ current_temperature # InitialTemperature
    /\ Len(log) > Len(StartupLog)

(* C19: socket_open and socket_listen run only in an iteration that finds   *)
(* the socket Closed; a Listening or Established socket is left alone, so   *)
(* an established connection is never replaced by a new accept.             *)
C19_OpenOnlyWhenClosed ==
    [][ /\ (pc = "open" /\ pc' # pc /\ connState # "Closed")
            => /\ connState' = connState
               /\ recvbuf' = recvbuf
               /\ written' = written
        /\ (connState' = "Listening" /\ connState # "Listening")
            => (pc = "open" /\ connState = "Closed")
        /\ (connState = "Established" /\ connState' # connState)
            => connState' = "Closed" ]_vars

C19_Witness ==
    /\ ~unit /\ pc = "check" /\ connState = "Established"
    /\ socket_received_line(recvbuf) /\ ~needReopen

(* C20: protocolState is always one of EMPTY, REQUEST, HEADER, END and      *)
(* apiCall one of NONE, GET, PUT, DELETE; protocolState changes only inside *)
(* parseRecvBuffer; so the default branches of both switches are never      *)
(* taken.                                                                   *)
ValidCalls == {NONE, GET, PUT, DELETE}

C20_StatesStayValid ==
    /\ [](protocolState \in ValidStates /\ apiCall \in ValidCalls)
    /\ [][ (protocolState' # protocolState \/ apiCall' # apiCall)
              => pc \in ParserPcs ]_vars

C20_Witness ==
    /\ ~unit /\ pc = "parse" /\ protocolState = END /\ apiCall = DELETE
    /\ socket_received_line(recvbuf)

====
